---- MODULE Spec2Model ----
(***************************************************************************)
(* CodeParser (src/source/utils/parser.ts): the directory walker, the      *)
(* extension table, the Python extractor and the JS/TS extractor.          *)
(*                                                                         *)
(* Text is a sequence of one-character strings.  Positions into a text are *)
(* 0-based, as in the source (match.index, startPos, i); line numbers are  *)
(* 1-based, as in the source (startLine, endLine).                         *)
(***************************************************************************)
EXTENDS Integers, Sequences, FiniteSets, TLC

\* ------------------------------------------------------------------ text

Lower == {"a", "b", "c", "d", "e", "f", "g", "h", "i", "j", "k", "l", "m",
          "n", "o", "p", "q", "r", "s", "t", "u", "v", "w", "x", "y", "z"}
Upper == {"A", "B", "C", "D", "E", "F", "G", "H", "I", "J", "K", "L", "M",
          "N", "O", "P", "Q", "R", "S", "T", "U", "V", "W", "X", "Y", "Z"}
Digit == {"0", "1", "2", "3", "4", "5", "6", "7", "8", "9"}

\* \s of a JavaScript regular expression, and what trim() strips.
WhiteSpace == {" ", "\t", "\n", "\r"}
\* The line terminators after which ^ matches under the m flag, and which
\* . does not match.
LineTerminators == {"\n", "\r"}
\* [a-zA-Z_] and [a-zA-Z0-9_]
PyIdentStart == Lower \cup Upper \cup {"_"}
WordChar == Lower \cup Upper \cup Digit \cup {"_"}

\* F(v), with v evaluated once, before F.
With(v, F(_)) == CHOOSE r \in {F(x) : x \in {v}} : TRUE

Min(S) == With(S, LAMBDA T : CHOOSE x \in T : \A y \in T : x <= y)

\* s[i] for a 0-based i.
At(s, i) == s[i + 1]
\* s.substring(a, b) for 0 <= a <= b <= s.length
Substring(s, a, b) == SubSeq(s, a + 1, b)
\* s.substring(a)
SubstringFrom(s, a) == SubSeq(s, a + 1, Len(s))
\* s.startsWith(w, i)
StartsWithAt(s, i, w) ==
    /\ i >= 0
    /\ i + Len(w) <= Len(s)
    /\ \A k \in 1..Len(w) : s[i + k] = w[k]
StartsWith(s, w) == StartsWithAt(s, 0, w)
\* s.indexOf(w, from), -1 when there is none
IndexOfFrom(s, w, from) ==
    With({i \in from..(Len(s) - Len(w)) : StartsWithAt(s, i, w)},
         LAMBDA hits : IF hits = {} THEN -1 ELSE Min(hits))
\* s.includes(w)
Includes(s, w) == IndexOfFrom(s, w, 0) # -1

IsSpaceAt(s, i) == i >= 0 /\ i < Len(s) /\ At(s, i) \in WhiteSpace

\* The position after the longest run of \s starting at i.
RECURSIVE SkipSpaces(_, _)
SkipSpaces(s, i) == IF IsSpaceAt(s, i) THEN SkipSpaces(s, i + 1) ELSE i

\* The position after the longest run of [a-zA-Z0-9_] starting at i.
RECURSIVE SkipWord(_, _)
SkipWord(s, i) ==
    IF i < Len(s) /\ At(s, i) \in WordChar THEN SkipWord(s, i + 1) ELSE i

\* s.length - s.trimStart().length
LeadingSpaces(s) == SkipSpaces(s, 0)

RECURSIVE TrailingSpaces(_, _)
TrailingSpaces(s, n) ==
    IF n < Len(s) /\ s[Len(s) - n] \in WhiteSpace
    THEN TrailingSpaces(s, n + 1) ELSE n

\* s.trimStart(), s.trim()
TrimStart(s) == SubstringFrom(s, LeadingSpaces(s))
Trim(s) ==
    LET t == TrimStart(s)
    IN  SubSeq(t, 1, Len(t) - TrailingSpaces(t, 0))

\* s.split('\n'): a sequence of texts, never empty.
RECURSIVE SplitFrom(_, _)
SplitFrom(s, from) ==
    With(IndexOfFrom(s, <<"\n">>, from),
         LAMBDA n : IF n = -1 THEN <<Substring(s, from, Len(s))>>
                    ELSE <<Substring(s, from, n)>> \o SplitFrom(s, n + 1))
Split(s) == SplitFrom(s, 0)

\* lines.join('\n')
RECURSIVE Join(_)
Join(ls) ==
    IF Len(ls) = 0 THEN <<>>
    ELSE IF Len(ls) = 1 THEN ls[1]
    ELSE ls[1] \o <<"\n">> \o Join(Tail(ls))

\* lines.slice(a, b): the elements with 0-based index in [a, b), clamped.
Slice(ls, a, b) ==
    LET hi == IF b > Len(ls) THEN Len(ls) ELSE b
    IN  IF a >= hi THEN <<>> ELSE SubSeq(ls, a + 1, hi)

\* s.replace(new RegExp(q, 'g'), ''): every occurrence of q removed, left to
\* right, occurrences not overlapping.
RECURSIVE RemoveAll(_, _, _)
RemoveAll(s, q, i) ==
    With(IndexOfFrom(s, q, i),
         LAMBDA n : IF n = -1 THEN SubstringFrom(s, i)
                    ELSE Substring(s, i, n) \o RemoveAll(s, q, n + Len(q)))

\* content.substring(0, pos).split('\n').length
NewlinesBefore(content, pos) ==
    Cardinality({i \in 0..(pos - 1) : At(content, i) = "\n"})
LineNumberAt(content, pos) == NewlinesBefore(content, pos) + 1

\* An optional text: string | null.
Null == [isNull |-> TRUE, text |-> <<>>]
Some(t) == [isNull |-> FALSE, text |-> t]

Str_def == <<"d", "e", "f">>
Str_class == <<"c", "l", "a", "s", "s">>
Str_async == <<"a", "s", "y", "n", "c">>
Str_export == <<"e", "x", "p", "o", "r", "t">>
Str_function == <<"f", "u", "n", "c", "t", "i", "o", "n">>
Str_const == <<"c", "o", "n", "s", "t">>
Str_let == <<"l", "e", "t">>
Str_var == <<"v", "a", "r">>
Str_arrow == <<"=", ">">>
Str_docOpen == <<"/", "*", "*">>
Str_docClose == <<"*", "/">>
Str_dq3 == <<"\"", "\"", "\"">>
Str_sq3 == <<"'", "'", "'">>
Str_classSp == <<"c", "l", "a", "s", "s", " ">>
Str_unknown == <<"u", "n", "k", "n", "o", "w", "n">>

\* ------------------------------------------------- the Python extractor

NoMatch == [found |-> FALSE]

\* Group 1 of the pattern at p, (async\s+def|def|class): the position after
\* it, or -1.
PyKeywordEnd(content, p) ==
    IF /\ StartsWithAt(content, p, Str_async)
       /\ IsSpaceAt(content, p + 5)
       /\ StartsWithAt(content, SkipSpaces(content, p + 5), Str_def)
    THEN SkipSpaces(content, p + 5) + 3
    ELSE IF StartsWithAt(content, p, Str_def) THEN p + 3
    ELSE IF StartsWithAt(content, p, Str_class) THEN p + 5
    ELSE -1

\* /^(async\s+def|def|class)\s+([a-zA-Z_][a-zA-Z0-9_]*)/gm tried at p.
PyMatchAt(content, p) ==
    LET k == PyKeywordEnd(content, p)
        n == SkipSpaces(content, k)
    IN  IF /\ (p = 0 \/ At(content, p - 1) \in LineTerminators)
           /\ k # -1
           /\ IsSpaceAt(content, k)
           /\ n < Len(content)
           /\ At(content, n) \in PyIdentStart
        THEN [found |-> TRUE, index |-> p, end |-> SkipWord(content, n),
              typeKeyword |-> Substring(content, p, k),
              name |-> Substring(content, n, SkipWord(content, n))]
        ELSE NoMatch

\* pattern.exec(content) with pattern.lastIndex = lastIndex: the leftmost
\* match at or after lastIndex.
PyExec(content, lastIndex) ==
    With({p \in lastIndex..(Len(content) - 1) : PyMatchAt(content, p).found},
         LAMBDA hits : IF hits = {} THEN NoMatch
                       ELSE PyMatchAt(content, Min(hits)))

\* lines[i] || '' for a 0-based i.
LineOrEmpty(lines, i) == IF i >= 0 /\ i < Len(lines) THEN lines[i + 1] ELSE <<>>

\* The loop of _isPythonMethod, from i down to 0.
RECURSIVE IsPythonMethodLoop(_, _, _)
IsPythonMethodLoop(lines, indent, i) ==
    IF i < 0 THEN FALSE
    ELSE LET prevLine == LineOrEmpty(lines, i)
             prevIndent == LeadingSpaces(prevLine)
         IN  IF StartsWith(Trim(prevLine), Str_classSp) /\ prevIndent < indent
             THEN TRUE
             ELSE IF prevIndent < indent THEN FALSE
             ELSE IsPythonMethodLoop(lines, indent, i - 1)

_isPythonMethod(lines, startLineIndex) ==
    IF startLineIndex = 0 THEN FALSE
    ELSE LET indent == LeadingSpaces(LineOrEmpty(lines, startLineIndex))
         IN  IF indent = 0 THEN FALSE
             ELSE IsPythonMethodLoop(lines, indent, startLineIndex - 1)

\* The docstring of _findPythonBlockEnd.
PyDocstring(lines, startLineIndex) ==
    LET firstLineAfterDef == Trim(LineOrEmpty(lines, startLineIndex + 1))
    IN  IF \/ StartsWith(firstLineAfterDef, Str_dq3)
           \/ StartsWith(firstLineAfterDef, Str_sq3)
        THEN LET quoteChar == Substring(firstLineAfterDef, 0, 3)
                 ends == {i \in (startLineIndex + 1)..(Len(lines) - 1) :
                             Includes(lines[i + 1], quoteChar)}
             IN  IF ends # {}
                 THEN Some(Trim(RemoveAll(
                          Join(Slice(lines, startLineIndex + 1, Min(ends) + 1)),
                          quoteChar, 0)))
                 ELSE Null
        ELSE Null

\* The indentation loop of _findPythonBlockEnd, from line index i on. The
\* variant breaks on currentIndent < initialIndent.
RECURSIVE PyBlockEndLoopMutant(_, _, _, _)
PyBlockEndLoopMutant(lines, initialIndent, i, endLine) ==
    IF i >= Len(lines) THEN endLine
    ELSE LET line == lines[i + 1]
         IN  IF Len(line) = 0 \/ Len(Trim(line)) = 0
             THEN PyBlockEndLoopMutant(lines, initialIndent, i + 1, endLine)
             ELSE IF LeadingSpaces(line) < initialIndent THEN endLine
             ELSE PyBlockEndLoopMutant(lines, initialIndent, i + 1, i + 1)
RECURSIVE PyBlockEndLoop(_, _, _, _)
PyBlockEndLoop(lines, initialIndent, i, endLine) ==
    IF i >= Len(lines) THEN endLine
    ELSE LET line == lines[i + 1]
         IN  IF Len(line) = 0 \/ Len(Trim(line)) = 0
             THEN PyBlockEndLoop(lines, initialIndent, i + 1, endLine)
             ELSE IF LeadingSpaces(line) <= initialIndent THEN endLine
             ELSE PyBlockEndLoop(lines, initialIndent, i + 1, i + 1)

_findPythonBlockEnd(lines, startLine) ==
    LET startLineIndex == startLine - 1
        initialIndent == LeadingSpaces(LineOrEmpty(lines, startLineIndex))
    IN  With(PyBlockEndLoop(lines, initialIndent, startLineIndex + 1,
                            startLine),
             LAMBDA endLine :
                 [endLine |-> endLine,
                  blockCode |-> Join(Slice(lines, startLineIndex, endLine)),
                  docstring |-> PyDocstring(lines, startLineIndex)])

PyChunkType(typeKeyword, isMethod) ==
    IF typeKeyword = Str_class THEN "class"
    ELSE IF isMethod THEN "method"
    ELSE "function"

\* One chunk of _parsePython, from a match.
PyChunkAt(lines, filePath, match, startLine) ==
    With(_findPythonBlockEnd(lines, startLine),
         LAMBDA block :
             [filePath |-> filePath,
              language |-> "python",
              chunkType |-> PyChunkType(match.typeKeyword,
                                        _isPythonMethod(lines, startLine - 1)),
              name |-> match.name,
              startLine |-> startLine,
              endLine |-> block.endLine,
              docString |-> block.docstring,
              code |-> block.blockCode])

PyChunk(content, lines, filePath, match) ==
    With(LineNumberAt(content, match.index),
         LAMBDA startLine : PyChunkAt(lines, filePath, match, startLine))

RECURSIVE PyLoop(_, _, _, _)
PyLoop(content, lines, filePath, lastIndex) ==
    With(PyExec(content, lastIndex),
         LAMBDA match :
             IF ~match.found THEN <<>>
             ELSE <<PyChunk(content, lines, filePath, match)>>
                  \o PyLoop(content, lines, filePath, match.end))

_parsePython(content, filePath) ==
    With(Split(content), LAMBDA lines : PyLoop(content, lines, filePath, 0))

\* -------------------------------------------------- the JS/TS extractor

\* (?:export\s+)? at q: the position after it, or q when it does not match.
SkipExport(content, q) ==
    IF StartsWithAt(content, q, Str_export) /\ IsSpaceAt(content, q + 6)
    THEN SkipSpaces(content, q + 6) ELSE q

\* (async\s+)? at q
SkipAsyncSp(content, q) ==
    IF StartsWithAt(content, q, Str_async) /\ IsSpaceAt(content, q + 5)
    THEN SkipSpaces(content, q + 5) ELSE q

\* (?:export\s+)?(async\s+)?(function\*?|class)\s+([a-zA-Z0-9_]+) tried at
\* q, the match reported as starting at p. Every optional part and every
\* run is taken whole: giving one back leaves the next part facing a
\* character it cannot match.
JSDeclAt(content, p, q) ==
    LET k == SkipAsyncSp(content, SkipExport(content, q))
        kwEnd == IF StartsWithAt(content, k, Str_function)
                 THEN (IF StartsWithAt(content, k + 8, <<"*">>)
                             /\ IsSpaceAt(content, k + 9)
                       THEN k + 9 ELSE k + 8)
                 ELSE IF StartsWithAt(content, k, Str_class) THEN k + 5
                 ELSE -1
        n == SkipSpaces(content, kwEnd)
        e == SkipWord(content, n)
    IN  IF kwEnd # -1 /\ IsSpaceAt(content, kwEnd) /\ e > n
        THEN [found |-> TRUE, index |-> p, end |-> e,
              m2 |-> Some(Substring(content, k, kwEnd)),
              m3 |-> Some(Substring(content, n, e)),
              m5 |-> Null]
        ELSE NoMatch

\* (?:\/\*\*[\s\S]*?\*\/[\s\n]*)? followed by the declaration, tried at p:
\* the lazy [\s\S]*? stops at the first */ after which the rest matches.
JSAlt1At(content, p) ==
    IF StartsWithAt(content, p, Str_docOpen)
    THEN With({c \in (p + 3)..(Len(content) - 2) :
                  /\ StartsWithAt(content, c, Str_docClose)
                  /\ JSDeclAt(content, p, SkipSpaces(content, c + 2)).found},
              LAMBDA closes :
                  IF closes # {}
                  THEN JSDeclAt(content, p,
                                SkipSpaces(content, Min(closes) + 2))
                  ELSE JSDeclAt(content, p, p))
    ELSE JSDeclAt(content, p, p)

\* (?:export\s+)?(const|let|var)\s+([a-zA-Z0-9_]+)\s*=\s*(?:async)?\s*\(
\* tried at p: where the name starts and ends and where the ( is.
JSAlt2Head(content, p) ==
    LET k == SkipExport(content, p)
        kwEnd == IF StartsWithAt(content, k, Str_const) THEN k + 5
                 ELSE IF StartsWithAt(content, k, Str_let) THEN k + 3
                 ELSE IF StartsWithAt(content, k, Str_var) THEN k + 3
                 ELSE -1
        n == SkipSpaces(content, kwEnd)
        e == SkipWord(content, n)
        eq == SkipSpaces(content, e)
        a == SkipSpaces(content, eq + 1)
        b == IF StartsWithAt(content, a, Str_async) THEN a + 5 ELSE a
        open == SkipSpaces(content, b)
    IN  IF /\ kwEnd # -1 /\ IsSpaceAt(content, kwEnd) /\ e > n
           /\ StartsWithAt(content, eq, <<"=">>)
           /\ StartsWithAt(content, open, <<"(">>)
        THEN [found |-> TRUE, n |-> n, e |-> e, open |-> open]
        ELSE NoMatch

\* The whole second alternative tried at p: the head, then .*?\)\s*=> , the
\* lazy .*? stopping at the first ) on the line after which, past any \s,
\* comes =>
JSAlt2Tail(content, p, head) ==
    With({c \in (head.open + 1)..(Len(content) - 1) :
             /\ At(content, c) = ")"
             /\ \A j \in (head.open + 1)..(c - 1) :
                   At(content, j) \notin LineTerminators
             /\ StartsWithAt(content, SkipSpaces(content, c + 1), Str_arrow)},
         LAMBDA closes :
             IF closes = {} THEN NoMatch
             ELSE [found |-> TRUE, index |-> p,
                   end |-> SkipSpaces(content, Min(closes) + 1) + 2,
                   m2 |-> Null, m3 |-> Null,
                   m5 |-> Some(Substring(content, head.n, head.e))])

JSAlt2At(content, p) ==
    With(JSAlt2Head(content, p),
         LAMBDA head : IF head.found THEN JSAlt2Tail(content, p, head)
                       ELSE NoMatch)

\* The whole pattern tried at p: the first alternative, then the second.
JSMatchAt(content, p) ==
    With(JSAlt1At(content, p),
         LAMBDA m : IF m.found THEN m ELSE JSAlt2At(content, p))

\* pattern.exec(content) with pattern.lastIndex = lastIndex.
JSExec(content, lastIndex) ==
    With({p \in lastIndex..(Len(content) - 1) : JSMatchAt(content, p).found},
         LAMBDA hits : IF hits = {} THEN NoMatch
                       ELSE JSMatchAt(content, Min(hits)))

\* line => line.trim().replace(/^\* ?/, '')
DeStar(line) ==
    LET t == Trim(line)
    IN  IF StartsWith(t, <<"*", " ">>) THEN SubstringFrom(t, 2)
        ELSE IF StartsWith(t, <<"*">>) THEN SubstringFrom(t, 1)
        ELSE t

\* content.substring(0, startPos).match(/\/\*\*([\s\S]*?)\*\/$/) and what is
\* made of its group 1.
JSDocstring(content, startPos) ==
    LET before == Substring(content, 0, startPos)
        opens == {o \in 0..(Len(before) - 5) :
                     StartsWithAt(before, o, Str_docOpen)}
    IN  IF StartsWithAt(before, Len(before) - 2, Str_docClose) /\ opens # {}
        THEN LET inner == Substring(before, Min(opens) + 3, Len(before) - 2)
                 ls == Split(inner)
             IN  Some(Trim(Join([k \in 1..Len(ls) |-> DeStar(ls[k])])))
        ELSE Null

\* The character ` , which a string of this notation cannot hold.
Backtick == "BACKTICK"
\* char === '"' || char === "'" || char === '`'
QuoteChars == {"\"", "'", Backtick}

\* while (i < content.length && content[i] !== '{') i++
FirstBraceFrom(content, i) ==
    LET n == IndexOfFrom(content, <<"{">>, i)
    IN  IF n = -1 THEN Len(content) ELSE n

\* One iteration of the brace-matching loop of _findJSBlockEnd, at index i,
\* on the loop's variables; inString is "" for false, and done is the index
\* at which firstBraceFound && openBraces === 0 made the loop return, -1
\* while it has not.
JSBraceStep(content, i, st) ==
    IF st.done # -1 THEN st
    ELSE LET char == At(content, i)
             closesString == /\ st.inString # ""
                             /\ char = st.inString /\ ~st.escape
             inString2 == IF st.inString # ""
                          THEN (IF closesString THEN "" ELSE st.inString)
                          ELSE IF char \in QuoteChars THEN char
                          ELSE ""
             escape2 == IF st.inString # ""
                        THEN (IF closesString THEN st.escape
                              ELSE char = "\\" /\ ~st.escape)
                        ELSE IF char \in QuoteChars THEN FALSE
                        ELSE st.escape
             open2 == IF st.inString # "" THEN st.openBraces
                      ELSE IF char \in QuoteChars THEN st.openBraces
                      ELSE IF char = "{" THEN st.openBraces + 1
                      ELSE IF char = "}" THEN st.openBraces - 1
                      ELSE st.openBraces
             found2 == st.firstBraceFound
                       \/ (st.inString = "" /\ char = "{")
         IN  [openBraces |-> open2, inString |-> inString2,
              escape |-> escape2, firstBraceFound |-> found2,
              done |-> IF found2 /\ open2 = 0 THEN i ELSE -1]

\* The iterations for the indices lo .. hi - 1, in order.
RECURSIVE JSBraceRun(_, _, _, _)
JSBraceRun(content, lo, hi, st) ==
    IF lo >= hi \/ st.done # -1 THEN st
    ELSE IF hi = lo + 1 THEN JSBraceStep(content, lo, st)
    ELSE With(JSBraceRun(content, lo, (lo + hi) \div 2, st),
              LAMBDA half : JSBraceRun(content, (lo + hi) \div 2, hi, half))

\* for (; i < content.length; i++) {...}: the index at which the loop
\* returns, or -1 when it runs off the end.
JSBraceLoop(content, i) ==
    With([openBraces |-> 0, inString |-> "", escape |-> FALSE,
          firstBraceFound |-> FALSE, done |-> -1],
         LAMBDA st : JSBraceRun(content, i, Len(content), st).done)

\* What _findJSBlockEnd returns when the brace loop returned at index close
\* (-1: the fallback after the loop), the first { being at i. The variant
\* has a fallback of lines.length + 1.
JSBlockMutant(content, startPos, lines, i, close) ==
    LET codeBlockStartLineIndex ==
            IF i < Len(content) THEN LineNumberAt(content, i) - 1
            ELSE LineNumberAt(content, startPos) - 1
        endLine == IF close # -1 THEN LineNumberAt(content, close + 1)
                   ELSE Len(lines) + 1
    IN  [endLine |-> endLine,
         blockCode |-> Join(Slice(lines, codeBlockStartLineIndex, endLine)),
         docstring |-> JSDocstring(content, startPos)]
JSBlock(content, startPos, lines, i, close) ==
    LET codeBlockStartLineIndex ==
            IF i < Len(content) THEN LineNumberAt(content, i) - 1
            ELSE LineNumberAt(content, startPos) - 1
        endLine == IF close # -1 THEN LineNumberAt(content, close + 1)
                   ELSE Len(lines)
    IN  [endLine |-> endLine,
         blockCode |-> Join(Slice(lines, codeBlockStartLineIndex, endLine)),
         docstring |-> JSDocstring(content, startPos)]

_findJSBlockEnd(content, startPos, lines) ==
    With(FirstBraceFrom(content, startPos),
         LAMBDA i : With(JSBraceLoop(content, i),
                         LAMBDA close :
                             JSBlock(content, startPos, lines, i, close)))

\* The chunkType of _parseJavaScriptTypeScript, from a match and match[0].
\* The variant compares match[2] with 'function' by equality.
JSChunkTypeMutant(match, match0) ==
    IF ~match.m2.isNull /\ match.m2.text = Str_class THEN "class"
    ELSE IF ~match.m2.isNull /\ match.m2.text = Str_function THEN "function"
    ELSE IF Includes(match0, Str_arrow) THEN "arrow_function"
    ELSE "other"
JSChunkType(match, match0) ==
    IF ~match.m2.isNull /\ match.m2.text = Str_class THEN "class"
    ELSE IF ~match.m2.isNull /\ Includes(match.m2.text, Str_function)
         THEN "function"
    ELSE IF Includes(match0, Str_arrow) THEN "arrow_function"
    ELSE "other"

\* match[3] || match[5] || 'unknown'
JSName(match) ==
    IF ~match.m3.isNull /\ Len(match.m3.text) > 0 THEN match.m3.text
    ELSE IF ~match.m5.isNull /\ Len(match.m5.text) > 0 THEN match.m5.text
    ELSE Str_unknown

\* One chunk of _parseJavaScriptTypeScript, from a match.
JSChunk(content, lines, filePath, language, match) ==
    With(_findJSBlockEnd(content, match.index, lines),
         LAMBDA block :
             [filePath |-> filePath,
              language |-> language,
              chunkType |-> JSChunkType(match, Substring(content, match.index,
                                                         match.end)),
              name |-> JSName(match),
              startLine |-> LineNumberAt(content, match.index),
              endLine |-> block.endLine,
              docString |-> block.docstring,
              code |-> block.blockCode])

RECURSIVE JSLoop(_, _, _, _, _)
JSLoop(content, lines, filePath, language, lastIndex) ==
    With(JSExec(content, lastIndex),
         LAMBDA match :
             IF ~match.found THEN <<>>
             ELSE <<JSChunk(content, lines, filePath, language, match)>>
                  \o JSLoop(content, lines, filePath, language, match.end))

_parseJavaScriptTypeScript(content, filePath, language) ==
    With(Split(content),
         LAMBDA lines : JSLoop(content, lines, filePath, language, 0))

\* ------------------------------------------------ the directory walker

Ext_py == <<".", "p", "y">>
Ext_js == <<".", "j", "s">>
Ext_ts == <<".", "t", "s">>
Ext_jsx == <<".", "j", "s", "x">>
Ext_tsx == <<".", "t", "s", "x">>

\* CodeParser.SUPPORTED_EXTENSIONS[extension]; "undefined" for no entry. The
\* variant has 'typescript' for '.tsx'.
SUPPORTED_EXTENSIONS_Mutant(extension) ==
    IF extension = Ext_py THEN "python"
    ELSE IF extension = Ext_js THEN "javascript"
    ELSE IF extension = Ext_ts THEN "typescript"
    ELSE IF extension = Ext_jsx THEN "jsx"
    ELSE IF extension = Ext_tsx THEN "typescript"
    ELSE "undefined"
SUPPORTED_EXTENSIONS(extension) ==
    IF extension = Ext_py THEN "python"
    ELSE IF extension = Ext_js THEN "javascript"
    ELSE IF extension = Ext_ts THEN "typescript"
    ELSE IF extension = Ext_jsx THEN "jsx"
    ELSE IF extension = Ext_tsx THEN "tsx"
    ELSE "undefined"

Max(S) == With(S, LAMBDA T : CHOOSE x \in T : \A y \in T : x >= y)

\* A path is the sequence of its segments, each a text. path.extname(path):
\* from the last "." of the last segment on, and empty when there is no ".",
\* when the only "." starts the segment, or when the segment is "..".
extname(filePath) ==
    LET base == filePath[Len(filePath)]
        dots == {i \in 0..(Len(base) - 1) : At(base, i) = "."}
    IN  IF dots = {} \/ Max(dots) = 0 \/ base = <<".", ".">> THEN <<>>
        ELSE SubstringFrom(base, Max(dots))

\* path.join(dirPath, file), for a file name readdir returns.
PathJoin(dirPath, file) == Append(dirPath, file)

\* allChunks.concat(chunks); the variant puts the new chunks first.
ConcatMutant(allChunks, chunks) == chunks \o allChunks
Concat(allChunks, chunks) == allChunks \o chunks

\* The dispatch of parseDirectory on the language.
ParseFile(content, filePath, language) ==
    IF language = "python" THEN _parsePython(content, filePath)
    ELSE _parseJavaScriptTypeScript(content, filePath, language)

VARIABLES
    fs,           \* the file system: dirs, each directory's listing; text,
                  \* each file's content
    pc,           \* the await parseDirectory is suspended at, or "done"
    stack,        \* the getAllFiles calls in progress: dirPath, files, and
                  \* idx, the position of the for loop in files
    arrayOfFiles, \* getAllFiles's accumulator, then parseDirectory's files
    fileIdx,      \* the position of parseDirectory's for loop in files
    allChunks,    \* parseDirectory's accumulator
    outcome,      \* how the promise parseDirectory returned has settled
    ioLog         \* the calls of readdir, stat and readFile, in order, each
                  \* with its path and how it settled

vars == <<fs, pc, stack, arrayOfFiles, fileIdx, allChunks, outcome, ioLog>>

NoError == [kind |-> "none", syscall |-> "none", path |-> <<>>]
Pending == [status |-> "pending", chunks |-> <<>>, error |-> NoError]
Fulfilled(chunks) ==
    [status |-> "fulfilled", chunks |-> chunks, error |-> NoError]
\* What readdir, stat or readFile rejects with.
FsError(syscall, path) == [kind |-> "fs", syscall |-> syscall, path |-> path]
\* new Error(`Failed to read or parse file ${filePath}: ${e}`)
WrappedError(filePath, e) ==
    [kind |-> "Failed to read or parse file", syscall |-> e.syscall,
     path |-> filePath]
Rejected(error) == [status |-> "rejected", chunks |-> <<>>, error |-> error]

\* A call of fs.promises, not settled yet, and the log with its last call
\* settled.
Call(syscall, path) ==
    [syscall |-> syscall, path |-> path, result |-> "pending"]
Settle(log, result) == [log EXCEPT ![Len(log)].result = result]

Top == stack[Len(stack)]
\* The entry the top call's for loop is at.
FullPath == PathJoin(Top.dirPath, Top.files[Top.idx + 1])

\* A getAllFiles call whose for loop is at idx goes on to the stat of that
\* entry, or to its return.
LoopPc(frame) == IF frame.idx < Len(frame.files) THEN "stat" ELSE "return"
LoopLog(log, frame) ==
    IF frame.idx < Len(frame.files)
    THEN Append(log, Call("stat", PathJoin(frame.dirPath,
                                           frame.files[frame.idx + 1])))
    ELSE log

\* The first index at or after from of a file whose extension has a
\* language, or -1.
NextSupported(files, from) ==
    With({j \in from..(Len(files) - 1) :
             SUPPORTED_EXTENSIONS(extname(files[j + 1])) # "undefined"},
         LAMBDA hits : IF hits = {} THEN -1 ELSE Min(hits))

\* parseDirectory's for loop from index from on, with chunks accumulated: up
\* to the readFile of the next supported file, or to the return.
FileLoop(from, chunks, log) ==
    \E j \in {NextSupported(arrayOfFiles, from)} :
        IF j # -1
        THEN /\ pc' = "readFile"
             /\ fileIdx' = j
             /\ ioLog' = Append(log, Call("readFile", arrayOfFiles[j + 1]))
             /\ allChunks' = chunks
             /\ outcome' = outcome
        ELSE /\ pc' = "done"
             /\ fileIdx' = Len(arrayOfFiles)
             /\ ioLog' = log
             /\ allChunks' = chunks
             /\ outcome' = Fulfilled(chunks)

\* A rejection no caller catches: it settles parseDirectory's promise.
Reject(error) ==
    /\ pc' = "done"
    /\ outcome' = Rejected(error)
    /\ ioLog' = Settle(ioLog, "error")
    /\ UNCHANGED <<fs, stack, arrayOfFiles, fileIdx, allChunks>>

\* await fs.promises.readdir(dirPath) resolves.
ReaddirOk ==
    /\ pc = "readdir"
    /\ Top.dirPath \in DOMAIN fs.dirs
    /\ LET frame == [Top EXCEPT !.files = fs.dirs[Top.dirPath], !.idx = 0]
       IN  /\ stack' = [stack EXCEPT ![Len(stack)] = frame]
           /\ pc' = LoopPc(frame)
           /\ ioLog' = LoopLog(Settle(ioLog, "ok"), frame)
    /\ UNCHANGED <<fs, arrayOfFiles, fileIdx, allChunks, outcome>>

\* await fs.promises.readdir(dirPath) rejects.
ReaddirFail ==
    /\ pc = "readdir"
    /\ Reject(FsError("readdir", Top.dirPath))

\* await fs.promises.stat(fullPath) resolves, not a directory.
StatFile ==
    /\ pc = "stat"
    /\ FullPath \notin DOMAIN fs.dirs
    /\ arrayOfFiles' = Append(arrayOfFiles, FullPath)
    /\ LET frame == [Top EXCEPT !.idx = Top.idx + 1]
       IN  /\ stack' = [stack EXCEPT ![Len(stack)] = frame]
           /\ pc' = LoopPc(frame)
           /\ ioLog' = LoopLog(Settle(ioLog, "ok"), frame)
    /\ UNCHANGED <<fs, fileIdx, allChunks, outcome>>

\* await fs.promises.stat(fullPath) resolves, a directory: the recursive
\* call, up to its readdir.
StatDir ==
    /\ pc = "stat"
    /\ FullPath \in DOMAIN fs.dirs
    /\ stack' = Append(stack, [dirPath |-> FullPath, files |-> <<>>,
                               idx |-> 0])
    /\ pc' = "readdir"
    /\ ioLog' = Append(Settle(ioLog, "ok"), Call("readdir", FullPath))
    /\ UNCHANGED <<fs, arrayOfFiles, fileIdx, allChunks, outcome>>

\* await fs.promises.stat(fullPath) rejects.
StatFail ==
    /\ pc = "stat"
    /\ Reject(FsError("stat", FullPath))

\* await this.getAllFiles(...) resolves: in getAllFiles, the for loop goes
\* on; in parseDirectory, the loop over the files starts.
GetAllFilesReturn ==
    /\ pc = "return"
    /\ IF Len(stack) > 1
       THEN LET caller == stack[Len(stack) - 1]
                frame == [caller EXCEPT !.idx = caller.idx + 1]
            IN  /\ stack' = Append(SubSeq(stack, 1, Len(stack) - 2), frame)
                /\ pc' = LoopPc(frame)
                /\ ioLog' = LoopLog(ioLog, frame)
                /\ UNCHANGED <<fileIdx, allChunks, outcome>>
       ELSE /\ stack' = <<>>
            /\ FileLoop(0, allChunks, ioLog)
    /\ UNCHANGED <<fs, arrayOfFiles>>

\* await fs.promises.readFile(filePath, 'utf-8') resolves: the file is
\* parsed, its chunks appended, and the loop goes on.
ReadFileOk ==
    /\ pc = "readFile"
    /\ \E filePath \in {arrayOfFiles[fileIdx + 1]} :
       \E content \in {fs.text[filePath]} :
       \E chunks \in {ParseFile(content, filePath,
                                SUPPORTED_EXTENSIONS(extname(filePath)))} :
          FileLoop(fileIdx + 1, Concat(allChunks, chunks),
                   Settle(ioLog, "ok"))
    /\ UNCHANGED <<fs, stack, arrayOfFiles>>

\* await fs.promises.readFile(filePath, 'utf-8') rejects, but the catch
\* goes on to the next file.
ReadFileFailMutant ==
    /\ pc = "readFile"
    /\ FileLoop(fileIdx + 1, allChunks, Settle(ioLog, "error"))
    /\ UNCHANGED <<fs, stack, arrayOfFiles>>

\* await fs.promises.readFile(filePath, 'utf-8') rejects: caught, wrapped
\* and thrown.
ReadFileFail ==
    /\ pc = "readFile"
    /\ LET filePath == arrayOfFiles[fileIdx + 1]
       IN  Reject(WrappedError(filePath, FsError("readFile", filePath)))

Next ==
    \/ ReaddirOk
    \/ ReaddirFail
    \/ StatFile
    \/ StatDir
    \/ StatFail
    \/ GetAllFilesReturn
    \/ ReadFileOk
    \/ ReadFileFail

\* ---------------------------------------------------- the file systems

Name_root == <<"r", "o", "o", "t">>
Name_a_py == <<"a", ".", "p", "y">>
Name_b_js == <<"b", ".", "j", "s">>
Name_c_ts == <<"c", ".", "t", "s">>
Name_d_jsx == <<"d", ".", "j", "s", "x">>
Name_e_tsx == <<"e", ".", "t", "s", "x">>
Name_f_txt == <<"f", ".", "t", "x", "t">>
Name_g_PY == <<"g", ".", "P", "Y">>
Name_mk == <<"m", "k">>
Name_dot_py == <<".", "p", "y">>
\* A directory whose name ends in a supported extension.
Name_dir == <<"d", ".", "j", "s">>

Text_py == <<"d", "e", "f", " ", "a", "(", ")", ":", "\n", " ", "p", "a", "s", "s", "\n", "c", "l", "a", "s", "s", " ", "B", ":", "\n", " ", "x", "=", "1">>
Text_js == <<"f", "u", "n", "c", "t", "i", "o", "n", " ", "b", "(", ")", " ", "{", "\n", "}", "\n", "c", "o", "n", "s", "t", " ", "c", " ", "=", " ", "(", ")", " ", "=", ">", " ", "{", "\n", "}", ";">>
Text_ts == <<"c", "l", "a", "s", "s", " ", "C", " ", "{", "\n", "}">>
Text_jsx == <<"f", "u", "n", "c", "t", "i", "o", "n", " ", "d", "(", ")", " ", "{", " ", "}">>
Text_tsx == <<"c", "o", "n", "s", "t", " ", "e", " ", "=", " ", "(", ")", " ", "=", ">", " ", "1", ";">>
\* What the unsupported files hold would yield a chunk if it were parsed.
Text_other == <<"d", "e", "f", " ", "t", "(", ")", ":", "\n", " ", "p", "a", "s", "s">>

FileNames == {Name_a_py, Name_b_js, Name_c_ts, Name_d_jsx, Name_e_tsx,
              Name_f_txt, Name_g_PY, Name_mk, Name_dot_py}
SubFileNames == {Name_a_py, Name_b_js, Name_f_txt}

\* The content of the file of a name.
FileText(name) ==
    IF name = Name_a_py THEN Text_py
    ELSE IF name = Name_b_js THEN Text_js
    ELSE IF name = Name_c_ts THEN Text_ts
    ELSE IF name = Name_d_jsx THEN Text_jsx
    ELSE IF name = Name_e_tsx THEN Text_tsx
    ELSE Text_other

\* The most entries of the root directory, and of its subdirectory.
MaxEntries == 2
MaxSubEntries == 2

Range(f) == {f[x] : x \in DOMAIN f}

\* The listings of at most n entries out of names, none twice.
Listings(names, n) ==
    {l \in UNION {[1..k -> names] : k \in 0..n} :
        \A i, j \in DOMAIN l : i # j => l[i] # l[j]}

Root == <<Name_root>>
SubDir == PathJoin(Root, Name_dir)

\* The file system of a root listing and a listing of the subdirectory.
MkFs(rootList, subList) ==
    LET hasDir == Name_dir \in Range(rootList)
        files == {PathJoin(Root, n) : n \in Range(rootList) \ {Name_dir}}
                 \cup (IF hasDir
                       THEN {PathJoin(SubDir, n) : n \in Range(subList)}
                       ELSE {})
    IN  [dirs |-> IF hasDir
                  THEN (Root :> rootList) @@ (SubDir :> subList)
                  ELSE (Root :> rootList),
         text |-> [f \in files |-> FileText(f[Len(f)])]]

\* parseDirectory(Root) has been called and is at its first await.
Called ==
    /\ pc = "readdir"
    /\ stack = <<[dirPath |-> Root, files |-> <<>>, idx |-> 0]>>
    /\ arrayOfFiles = <<>>
    /\ fileIdx = 0
    /\ allChunks = <<>>
    /\ outcome = Pending
    /\ ioLog = <<Call("readdir", Root)>>

Init ==
    /\ \E rootList \in Listings(FileNames \cup {Name_dir}, MaxEntries),
          subList \in Listings(SubFileNames, MaxSubEntries) :
          /\ Name_dir \notin Range(rootList) => subList = <<>>
          /\ fs = MkFs(rootList, subList)
    /\ Called

Spec == Init /\ [][Next]_vars

\* ------------------------------------------- the extractors on their own

Name_m_py == <<"m", ".", "p", "y">>
Name_m_js == <<"m", ".", "j", "s">>

\* Lines a file is made of, and whole files.
PyL_class == <<"c", "l", "a", "s", "s", " ", "A", ":">>
PyL_method == <<" ", "d", "e", "f", " ", "m", "(", "s", ")", ":">>
PyL_def == <<"d", "e", "f", " ", "f", "(", ")", ":">>
PyL_doc == <<" ", "\"", "\"", "\"", "d", "\"", "\"", "\"">>
PyL_docOpen == <<" ", "\"", "\"", "\"", "a">>
PyL_docEnd == <<" ", "b", "\"", "\"", "\"">>
PyL_blank == <<>>
PyL_body == <<" ", " ", "p">>
JsL_doc == <<"/", "*", "*", " ", "d", " ", "*", "/">>
JsL_function ==
    <<"f", "u", "n", "c", "t", "i", "o", "n", " ", "f", "(", "a", ")", " ",
      "{">>
JsL_close == <<"}">>
JsL_arrow ==
    <<"c", "o", "n", "s", "t", " ", "g", " ", "=", " ", "(", "a", ")", " ",
      "=", ">", " ", "{">>
JsL_string == <<" ", "s", " ", "=", " ", "\"", "}", "\"", ";">>
JsL_param ==
    <<"f", "u", "n", "c", "t", "i", "o", "n", " ", "h", "(", "s", " ", "=",
      " ", "\"", "{", "\"", ")", " ", "{">>
JsL_oneLine ==
    <<"c", "o", "n", "s", "t", " ", "k", " ", "=", " ", "(", ")", " ", "=",
      ">", " ", "1", ";">>
JsL_class == <<"c", "l", "a", "s", "s", " ", "C", " ", "{">>
Py_scenarioA ==
    <<"c", "l", "a", "s", "s", " ", "A", ":", "\n", " ", " ", " ", " ", "\"",
      "\"", "\"", "A", " ", "c", "l", "a", "s", "s", ".", "\"", "\"", "\"",
      "\n", " ", " ", " ", " ", "d", "e", "f", " ", "m", "(", "s", "e", "l",
      "f", ")", ":", "\n", " ", " ", " ", " ", " ", " ", " ", " ", "r", "e",
      "t", "u", "r", "n", " ", "1", "\n", "\n", "d", "e", "f", " ", "f", "(",
      ")", ":", "\n", " ", " ", " ", " ", "\"", "\"", "\"", "A", " ", "f",
      "u", "n", "c", "t", "i", "o", "n", ".", "\"", "\"", "\"", "\n", " ",
      " ", " ", " ", "r", "e", "t", "u", "r", "n", " ", "T", "r", "u", "e",
      "\n">>
Py_docstrings ==
    <<"d", "e", "f", " ", "a", "(", ")", ":", "\n", " ", " ", " ", " ", "\"",
      "\"", "\"", "T", "h", "i", "s", " ", "i", "s", "\n", " ", " ", " ",
      " ", "t", "w", "o", " ", "l", "i", "n", "e", "s", ".", "\"", "\"",
      "\"", "\n", " ", " ", " ", " ", "p", "a", "s", "s", "\n", "\n", "d",
      "e", "f", " ", "b", "(", ")", ":", "\n", " ", " ", " ", " ", "p", "a",
      "s", "s", "\n", "\n", "d", "e", "f", " ", "c", "(", ")", ":", "\n",
      " ", " ", " ", " ", "'", "'", "'", "S", "i", "n", "g", "l", "e", "'",
      "'", "'", "\n", " ", " ", " ", " ", "p", "a", "s", "s">>
Py_unclosed ==
    <<"a", "s", "y", "n", "c", " ", "d", "e", "f", " ", "g", "(", ")", ":",
      "\n", " ", " ", "\"", "\"", "\"", "n", "e", "v", "e", "r", " ", "c",
      "l", "o", "s", "e", "d", "\n", " ", " ", "p", "a", "s", "s", "\n">>
Py_nested ==
    <<"c", "l", "a", "s", "s", " ", "A", ":", "\n", " ", " ", "c", "l", "a",
      "s", "s", " ", "B", ":", "\n", " ", " ", " ", " ", "d", "e", "f", " ",
      "m", "(", "s", ")", ":", "\n", " ", " ", " ", " ", " ", " ", "p", "a",
      "s", "s", "\n", "\n", " ", " ", "x", " ", "=", " ", "1", "\n", "d",
      "e", "f", " ", "f", "(", ")", ":", " ", "p", "a", "s", "s">>
Py_blanks ==
    <<"d", "e", "f", " ", "f", "(", ")", ":", "\n", " ", " ", "p", "\n", "\n",
      " ", " ", "q", "\n", " ", "\n", "\n", "d", "e", "f", " ", "g", "(", ")",
      ":", "\n", " ", " ", "p", "\n", "x", " ", "=", " ", "1", "\n", "d", "e",
      "f", " ", "h", "(", ")", ":", "\n", "\n">>
Js_scenarioB ==
    <<"/", "*", "*", "\n", " ", "*", " ", "A", " ", "u", "t", "i", "l", "i",
      "t", "y", " ", "f", "u", "n", "c", "t", "i", "o", "n", ".", "\n", " ",
      "*", " ", "@", "p", "a", "r", "a", "m", " ", "{", "n", "u", "m", "b",
      "e", "r", "}", " ", "a", "\n", " ", "*", "/", "\n", "f", "u", "n", "c",
      "t", "i", "o", "n", " ", "a", "d", "d", "(", "a", ",", " ", "b", ")",
      " ", "{", "\n", " ", " ", "r", "e", "t", "u", "r", "n", " ", "a", " ",
      "+", " ", "b", ";", "\n", "}", "\n", "\n", "e", "x", "p", "o", "r",
      "t", " ", "c", "o", "n", "s", "t", " ", "m", "u", "l", "t", "i", "p",
      "l", "y", " ", "=", " ", "(", "a", ",", " ", "b", ")", " ", "=", ">",
      " ", "{", "\n", " ", " ", "r", "e", "t", "u", "r", "n", " ", "a", " ",
      "*", " ", "b", ";", "\n", "}", ";", "\n", "\n", "c", "l", "a", "s",
      "s", " ", "C", "a", "l", "c", "u", "l", "a", "t", "o", "r", " ", "{",
      "\n", " ", " ", " ", " ", "c", "o", "n", "s", "t", "r", "u", "c", "t",
      "o", "r", "(", ")", " ", "{", "\n", " ", " ", " ", " ", "}", "\n", " ",
      " ", " ", " ", "s", "u", "b", "t", "r", "a", "c", "t", "(", "a", ",",
      " ", "b", ")", " ", "{", "\n", " ", " ", " ", " ", " ", " ", " ", " ",
      "r", "e", "t", "u", "r", "n", " ", "a", "-", "b", ";", "\n", " ", " ",
      " ", " ", "}", "\n", "}", "\n">>
Js_jsdoc ==
    <<"/", "*", "*", "\n", " ", "*", " ", "A", "d", "d", "s", " ", "t", "w",
      "o", " ", "n", "u", "m", "b", "e", "r", "s", "\n", " ", "*", "/", "\n",
      "f", "u", "n", "c", "t", "i", "o", "n", " ", "a", "d", "d", "(", "a",
      ",", " ", "b", ")", " ", "{", "\n", " ", " ", " ", " ", "r", "e", "t",
      "u", "r", "n", " ", "a", " ", "+", " ", "b", ";", "\n", "}", "\n",
      "\n", "f", "u", "n", "c", "t", "i", "o", "n", " ", "n", "o", "D", "o",
      "c", "(", ")", " ", "{", "\n", " ", " ", " ", " ", "r", "e", "t", "u",
      "r", "n", " ", "t", "r", "u", "e", ";", "\n", "}">>
Js_arrows ==
    <<"c", "o", "n", "s", "t", " ", "s", "i", "m", "p", "l", "e", " ", "=",
      " ", "(", ")", " ", "=", ">", " ", "t", "r", "u", "e", ";", "\n", "\n",
      "l", "e", "t", " ", "w", "i", "t", "h", "P", "a", "r", "a", "m", "s",
      " ", "=", " ", "(", "a", ",", " ", "b", ")", " ", "=", ">", " ", "{",
      "\n", " ", " ", " ", " ", "r", "e", "t", "u", "r", "n", " ", "a", " ",
      "+", " ", "b", ";", "\n", "}", ";", "\n", "\n", "e", "x", "p", "o",
      "r", "t", " ", "v", "a", "r", " ", "e", "x", "p", "o", "r", "t", "e",
      "d", " ", "=", " ", "a", "s", "y", "n", "c", " ", "(", "d", "a", "t",
      "a", ")", " ", "=", ">", " ", "{", "\n", " ", " ", " ", " ", "r", "e",
      "t", "u", "r", "n", " ", "a", "w", "a", "i", "t", " ", "p", "r", "o",
      "c", "e", "s", "s", "(", "d", "a", "t", "a", ")", ";", "\n", "}", ";">>
Js_strings ==
    <<"f", "u", "n", "c", "t", "i", "o", "n", " ", "q", "(", ")", " ", "{",
      "\n", " ", " ", "c", "o", "n", "s", "t", " ", "a", " ", "=", " ", "'",
      "i", "t", "\\", "'", "s", " ", "{", "'", ";", "\n", " ", " ", "c", "o",
      "n", "s", "t", " ", "b", " ", "=", " ", "\"", "\\", "\\", "\"", ";",
      "\n", " ", " ", "c", "o", "n", "s", "t", " ", "c", " ", "=", " ",
      Backtick, "}", Backtick, ";", "\n", " ", " ", "r", "e", "t", "u", "r",
      "n", " ", "a", ";", "\n", "}", "\n", "f", "u", "n", "c", "t", "i", "o",
      "n", " ", "r", "(", ")", " ", "{", "}", "\n">>
Js_forms ==
    <<"e", "x", "p", "o", "r", "t", " ", "a", "s", "y", "n", "c", " ", "f",
      "u", "n", "c", "t", "i", "o", "n", "*", " ", "g", "e", "n", "(", ")",
      " ", "{", "\n", "}", "\n", "c", "l", "a", "s", "s", " ", "K", " ", "{",
      "\n", " ", " ", "m", "(", ")", " ", "{", "\n", " ", " ", " ", " ", "f",
      "u", "n", "c", "t", "i", "o", "n", " ", "i", "n", "n", "e", "r", "(",
      ")", " ", "{", " ", "}", "\n", " ", " ", "}", "\n", "}", "\n", "e",
      "x", "p", "o", "r", "t", " ", "c", "l", "a", "s", "s", " ", "L", "\n",
      "{", "\n", "}", "\n">>
Js_lateBrace ==
    <<"f", "u", "n", "c", "t", "i", "o", "n", " ", "p", "(", ")", "\n", "{",
      "\n", " ", " ", "r", "e", "t", "u", "r", "n", " ", "1", ";", "\n", "}",
      "\n", "/", "*", "*", " ", "d", " ", "*", "/", "c", "o", "n", "s", "t",
      " ", "z", " ", "=", " ", "a", "s", "y", "n", "c", " ", "(", "a", ")",
      " ", "=", ">", "\n", "{", " ", "}", "\n">>

PyLineSet == {PyL_class, PyL_method, PyL_def, PyL_doc, PyL_docOpen,
              PyL_docEnd, PyL_blank, PyL_body}
JsLineSet == {JsL_doc, JsL_function, JsL_close, JsL_arrow, JsL_string,
              JsL_param, JsL_oneLine, JsL_class}
PyCorpus == {Py_scenarioA, Py_docstrings, Py_unclosed, Py_nested, Py_blanks}
JsCorpus == {Js_scenarioB, Js_jsdoc, Js_arrows, Js_strings, Js_forms,
             Js_lateBrace}

\* The most lines of a generated Python file, and of a generated JS file.
MaxPyLines == 4
MaxJsLines == 4

\* The texts of at most n lines, each out of lineSet.
TextsOf(lineSet, n) ==
    {Join(ls) : ls \in UNION {[1..k -> lineSet] : k \in 0..n}}

PyFiles == TextsOf(PyLineSet, MaxPyLines) \cup PyCorpus
JsFiles == TextsOf(JsLineSet, MaxJsLines) \cup JsCorpus

ParseInputs ==
    {[name |-> Name_m_py, text |-> t] : t \in PyFiles}
    \cup {[name |-> Name_m_js, text |-> t] : t \in JsFiles}

\* parseDirectory(Root) has enumerated a root that holds one file, and is at
\* the readFile of it.
InitParse ==
    \E input \in ParseInputs :
        /\ fs = [dirs |-> (Root :> <<input.name>>),
                 text |-> (PathJoin(Root, input.name) :> input.text)]
        /\ pc = "readFile"
        /\ stack = <<>>
        /\ arrayOfFiles = <<PathJoin(Root, input.name)>>
        /\ fileIdx = 0
        /\ allChunks = <<>>
        /\ outcome = Pending
        /\ ioLog = <<Settle(<<Call("readdir", Root)>>, "ok")[1],
                     Settle(<<Call("stat", PathJoin(Root, input.name))>>,
                            "ok")[1],
                     Call("readFile", PathJoin(Root, input.name))>>

NextParse ==
    \/ ReadFileOk
    \/ ReadFileFail

SpecParse == InitParse /\ [][NextParse]_vars

\* ============================================================ properties

\* What parseDirectory's caller gets, once the promise has settled.
Succeeded == outcome.status = "fulfilled"
Failed == outcome.status = "rejected"
Returned == outcome.chunks
TextOf(chunk) == fs.text[chunk.filePath]
\* The number of lines of a text: one more than its line feeds.
NumLines(text) == Cardinality({i \in 1..Len(text) : text[i] = "\n"}) + 1
\* Lines a to b of a text, 1-based and inclusive, joined with line feeds.
LinesOf(text, a, b) == Join(SubSeq(Split(text), a, b))
IsPython(chunk) == chunk.language = "python"

\* C1: every chunk parseDirectory returns, from the Python or the JS/TS
\* extractor and whatever the file holds, has
\* 1 <= startLine <= endLine <= the number of lines of its file.
C1_LineBounds ==
    Succeeded =>
        \A k \in DOMAIN Returned :
            LET chunk == Returned[k]
            IN  /\ 1 <= chunk.startLine
                /\ chunk.startLine <= chunk.endLine
                /\ chunk.endLine <= NumLines(TextOf(chunk))

\* A JS chunk that starts after line 1 in a file that closes no brace, and
\* runs to the last line of the file.
C1_Witness ==
    /\ Succeeded
    /\ \E k \in DOMAIN Returned :
           LET chunk == Returned[k]
           IN  /\ ~IsPython(chunk)
               /\ ~Includes(TextOf(chunk), <<"}">>)
               /\ 1 < chunk.startLine
               /\ chunk.startLine < chunk.endLine
               /\ chunk.endLine = NumLines(TextOf(chunk))

\* C2: the code of every chunk parseDirectory returns is exactly lines
\* startLine to endLine of its file, joined with line feeds.
C2_CodeIsLines ==
    Succeeded =>
        \A k \in DOMAIN Returned :
            LET chunk == Returned[k]
            IN  chunk.code
                    = LinesOf(TextOf(chunk), chunk.startLine, chunk.endLine)


\* The chunks parseDirectory returns for the file at path, in order.
ChunksOf(path) == SelectSeq(Returned, LAMBDA chunk : chunk.filePath = path)
FilesOf(language) ==
    {path \in DOMAIN fs.text :
        SUPPORTED_EXTENSIONS(extname(path)) = language}
ChunkTypes(chunks) == [k \in DOMAIN chunks |-> chunks[k].chunkType]

\* A line that, after its indentation, is the header of a def or async def.
IsDefHeader(line) ==
    LET m == PyMatchAt(TrimStart(line), 0)
    IN  m.found /\ m.typeKeyword # Str_class
IsClassHeader(line) == StartsWith(TrimStart(line), Str_classSp)
IsBlank(line) == Len(Trim(line)) = 0
\* Line i (1-based) is indented more than a class header above it, and no
\* line between the two is indented less than line i.
DirectlyUnderClass(lines, i) ==
    \E j \in 1..(i - 1) :
        /\ IsClassHeader(lines[j])
        /\ LeadingSpaces(lines[j]) < LeadingSpaces(lines[i])
        /\ \A k \in (j + 1)..(i - 1) :
               \/ IsBlank(lines[k])
               \/ LeadingSpaces(lines[k]) >= LeadingSpaces(lines[i])
HasChunkAt(path, line, chunkType) ==
    \E k \in DOMAIN Returned :
        /\ Returned[k].filePath = path
        /\ Returned[k].startLine = line
        /\ Returned[k].chunkType = chunkType

\* C3: in a Python file every def or async def header indented directly
\* under a class header has its own chunk, a method, and every def at
\* column 0 has a chunk, a function; a class with a docstring and one
\* method, followed by one top-level function, gives exactly the three
\* chunks class, method, function.
C3_MethodsAndFunctions ==
    Succeeded =>
        \A path \in FilesOf("python") :
            LET lines == Split(fs.text[path])
            IN  /\ \A i \in DOMAIN lines :
                       IsDefHeader(lines[i]) =>
                           /\ LeadingSpaces(lines[i]) = 0
                                  => HasChunkAt(path, i, "function")
                           /\ DirectlyUnderClass(lines, i)
                                  => HasChunkAt(path, i, "method")
                /\ fs.text[path] = Py_scenarioA
                       => ChunkTypes(ChunksOf(path))
                              = <<"class", "method", "function">>

\* The matches of the JS/TS pattern in content, from lastIndex on, in order.
RECURSIVE JSMatches(_, _)
JSMatches(content, lastIndex) ==
    With(JSExec(content, lastIndex),
         LAMBDA match : IF ~match.found THEN <<>>
                        ELSE <<match>> \o JSMatches(content, match.end))
\* Where the declaration of a match starts: after the JSDoc block and the
\* white space the first alternative may have taken before it.
DeclStart(content, match) ==
    IF match.m2.isNull THEN match.index
    ELSE Min({q \in match.index..match.end :
                 LET decl == JSDeclAt(content, match.index, q)
                 IN  decl.found /\ decl.end = match.end})
\* The position after the last character before q that is not white space.
BeforeSpaces(content, q) ==
    q - TrailingSpaces(Substring(content, 0, q), 0)
\* A comment closes right before the declaration at q, white space aside.
CommentBefore(content, q) ==
    StartsWithAt(content, BeforeSpaces(content, q) - 2, Str_docClose)
\* The interior of the /** ... */ block that closes right before the
\* declaration at q, or Null when there is none: the block opens at the
\* first /** that no */ closes earlier.
DocBlockBefore(content, q) ==
    LET close == BeforeSpaces(content, q) - 2
        opens == {o \in 0..(close - 3) :
                     /\ StartsWithAt(content, o, Str_docOpen)
                     /\ \A j \in (o + 3)..(close - 1) :
                            ~StartsWithAt(content, j, Str_docClose)}
    IN  IF CommentBefore(content, q) /\ opens # {}
        THEN Some(Substring(content, Min(opens) + 3, close))
        ELSE Null
\* The interior of a block, each line without its leading * marker, trimmed.
Destarred(interior) ==
    LET ls == Split(interior)
    IN  Trim(Join([k \in DOMAIN ls |-> DeStar(ls[k])]))
IsFunctionKeyword(m2) ==
    ~m2.isNull /\ m2.text \in {Str_function, Str_function \o <<"*">>}

\* C4: the docString of a JS/TS function declaration that a /** ... */ block
\* immediately precedes is the interior of that block, the leading * markers
\* stripped, trimmed; the docString of a declaration that no block comment
\* immediately precedes is null.
C4_JSDoc ==
    Succeeded =>
        \A path \in DOMAIN fs.text :
            SUPPORTED_EXTENSIONS(extname(path)) \notin {"python", "undefined"}
            => LET content == fs.text[path]
                   matches == JSMatches(content, 0)
                   chunks == ChunksOf(path)
               IN  /\ Len(chunks) = Len(matches)
                   /\ \A k \in DOMAIN matches :
                          LET q == DeclStart(content, matches[k])
                              block == DocBlockBefore(content, q)
                          IN  /\ (IsFunctionKeyword(matches[k].m2)
                                      /\ ~block.isNull)
                                 => chunks[k].docString
                                        = Some(Destarred(block.text))
                              /\ ~CommentBefore(content, q)
                                 => chunks[k].docString = Null

\* One character of a scan for string literals: quote is the quote of the
\* literal the scan is in, "" outside of one; out is the text read so far,
\* with "x" in place of every brace inside a literal.
LexStep(content, i, st) ==
    LET char == At(content, i)
        masked == IF char \in {"{", "}"} THEN "x" ELSE char
    IN  IF st.quote = ""
        THEN [quote |-> IF char \in QuoteChars THEN char ELSE "",
              escaped |-> FALSE, out |-> Append(st.out, char)]
        ELSE IF st.escaped
        THEN [quote |-> st.quote, escaped |-> FALSE,
              out |-> Append(st.out, masked)]
        ELSE IF char = "\\"
        THEN [quote |-> st.quote, escaped |-> TRUE,
              out |-> Append(st.out, char)]
        ELSE IF char = st.quote
        THEN [quote |-> "", escaped |-> FALSE, out |-> Append(st.out, char)]
        ELSE [quote |-> st.quote, escaped |-> FALSE,
              out |-> Append(st.out, masked)]
RECURSIVE LexRun(_, _, _, _)
LexRun(content, lo, hi, st) ==
    IF lo >= hi THEN st
    ELSE IF hi = lo + 1 THEN LexStep(content, lo, st)
    ELSE With(LexRun(content, lo, (lo + hi) \div 2, st),
              LAMBDA half : LexRun(content, (lo + hi) \div 2, hi, half))
\* content, with "x" in place of every brace that lies inside a string
\* literal opened at or after from.
WithoutStringBraces(content, from) ==
    Substring(content, 0, from)
    \o LexRun(content, from, Len(content),
              [quote |-> "", escaped |-> FALSE, out |-> <<>>]).out

\* C5: a brace inside a string literal, anywhere from the match start on, is
\* neither taken as the opening brace of the block nor counted in the brace
\* depth: the endLine of every JS/TS chunk is the one the same file gives
\* with those braces not in the string.
C5_StringBraces ==
    Succeeded =>
        \A path \in DOMAIN fs.text :
            SUPPORTED_EXTENSIONS(extname(path)) \notin {"python", "undefined"}
            => LET content == fs.text[path]
                   matches == JSMatches(content, 0)
                   chunks == ChunksOf(path)
               IN  /\ Len(chunks) = Len(matches)
                   /\ \A k \in DOMAIN matches :
                          With(WithoutStringBraces(content, matches[k].index),
                               LAMBDA plain :
                                   chunks[k].endLine
                                       = _findJSBlockEnd(plain,
                                             matches[k].index,
                                             Split(plain)).endLine)

\* The docstring that opens on the line after the declaration at line index
\* idx (0-based): the lines from that one to the one of the first triple
\* quote after the opening one, the quotes removed, trimmed; Null when the
\* line does not open one or no triple quote follows the opening one.
ExpectedPyDoc(lines, idx) ==
    LET first == Trim(LineOrEmpty(lines, idx + 1))
        quote == Substring(first, 0, 3)
        rest == Join(Slice(lines, idx + 1, Len(lines)))
        close == IndexOfFrom(rest, quote, LeadingSpaces(rest) + 3)
        closeLine == idx + 1 + NewlinesBefore(rest, close)
    IN  IF ~(StartsWith(first, Str_dq3) \/ StartsWith(first, Str_sq3))
        THEN Null
        ELSE IF close = -1 THEN Null
        ELSE Some(Trim(RemoveAll(Join(Slice(lines, idx + 1, closeLine + 1)),
                                 quote, 0)))

\* C6: the docString of a Python declaration whose next line, trimmed,
\* starts with a triple quote is the text from that line to the line of the
\* closing triple quote, which may be lines later, the quotes removed,
\* trimmed; it is null when no closing triple quote follows the opening one,
\* and null when the next line does not start with a triple quote.
C6_PyDocstring ==
    Succeeded =>
        \A k \in DOMAIN Returned :
            LET chunk == Returned[k]
            IN  IsPython(chunk) =>
                    chunk.docString
                        = ExpectedPyDoc(Split(TextOf(chunk)),
                                        chunk.startLine - 1)

\* The last segment of a path, and whether a name ends with a suffix that is
\* not the whole of it.
BaseName(path) == path[Len(path)]
HasSuffix(name, suffix) ==
    /\ Len(name) > Len(suffix)
    /\ SubSeq(name, Len(name) - Len(suffix) + 1, Len(name)) = suffix
\* The table of extensions and languages, "none" for every other name.
LanguageOf(name) ==
    IF HasSuffix(name, <<".", "p", "y">>) THEN "python"
    ELSE IF HasSuffix(name, <<".", "j", "s">>) THEN "javascript"
    ELSE IF HasSuffix(name, <<".", "t", "s">>) THEN "typescript"
    ELSE IF HasSuffix(name, <<".", "j", "s", "x">>) THEN "jsx"
    ELSE IF HasSuffix(name, <<".", "t", "s", "x">>) THEN "tsx"
    ELSE "none"
\* The files of the tree, directories aside.
TreeFiles == DOMAIN fs.text \ DOMAIN fs.dirs

\* C7: every chunk comes from a file whose extension is exactly .py, .js,
\* .ts, .jsx or .tsx and carries the language of that extension; a file with
\* any other name is never read and gives no chunk, so a tree with no
\* supported file gives the empty sequence.
C7_Extensions ==
    /\ \A k \in DOMAIN allChunks :
           /\ LanguageOf(BaseName(allChunks[k].filePath)) # "none"
           /\ allChunks[k].language
                  = LanguageOf(BaseName(allChunks[k].filePath))
    /\ \A j \in DOMAIN ioLog :
           ioLog[j].syscall = "readFile"
               => LanguageOf(BaseName(ioLog[j].path)) # "none"
    /\ Succeeded =>
           /\ Returned = allChunks
           /\ (\A path \in TreeFiles : LanguageOf(BaseName(path)) = "none")
                  => Returned = <<>>

\* A call that succeeded on a root that holds g.PY, with a chunk from a
\* .tsx file.
C7_Witness ==
    /\ Succeeded
    /\ Name_g_PY \in Range(fs.dirs[Root])
    /\ \E k \in DOMAIN Returned : Returned[k].language = "tsx"

\* C8: when a readdir, a stat or a readFile fails, the call ends in an error,
\* for a readFile the one that carries the path of the file; none of the
\* chunks of the files before it is returned, and no call of the file system
\* follows the one that failed.
C8_AllOrNothing ==
    \A j \in DOMAIN ioLog :
        ioLog[j].result = "error" =>
            /\ Failed
            /\ pc = "done"
            /\ Returned = <<>>
            /\ j = Len(ioLog)
            /\ outcome.error.syscall = ioLog[j].syscall
            /\ ioLog[j].syscall = "readFile" =>
                   /\ outcome.error.kind = "Failed to read or parse file"
                   /\ outcome.error.path = ioLog[j].path

\* The read of a file failed, after chunks of earlier files had been
\* accumulated and with a supported file still to come.
C8_Witness ==
    /\ Failed
    /\ outcome.error.syscall = "readFile"
    /\ allChunks # <<>>
    /\ NextSupported(arrayOfFiles, fileIdx + 1) # -1

\* The files under dir from entry k of its listing on, depth first: a
\* subdirectory's files stand where the subdirectory stands in the listing.
RECURSIVE Walk(_, _)
Walk(dir, k) ==
    IF k > Len(fs.dirs[dir]) THEN <<>>
    ELSE LET path == Append(dir, fs.dirs[dir][k])
         IN  (IF path \in DOMAIN fs.dirs THEN Walk(path, 1) ELSE <<path>>)
             \o Walk(dir, k + 1)
Enumeration == Walk(Root, 1)
\* The chunks of the supported files among files, file after file.
RECURSIVE ChunksOfFiles(_)
ChunksOfFiles(files) ==
    IF files = <<>> THEN <<>>
    ELSE LET path == Head(files)
             language == LanguageOf(BaseName(path))
         IN  (IF language = "none" THEN <<>>
              ELSE ParseFile(fs.text[path], path, language))
             \o ChunksOfFiles(Tail(files))
\* The paths of the reads that succeeded, in order.
RECURSIVE OkReads(_)
OkReads(log) ==
    IF log = <<>> THEN <<>>
    ELSE (IF Head(log).syscall = "readFile" /\ Head(log).result = "ok"
          THEN <<Head(log).path>> ELSE <<>>)
         \o OkReads(Tail(log))

\* C9: a successful call returns the chunks of the supported files in the
\* order of the depth-first enumeration, each file's chunks in the order of
\* their matches; no read starts before the enumeration has finished, no
\* call starts before the one before it has settled, and a read starts with
\* the chunks of all the files read before it accumulated.
C9_Order ==
    /\ Succeeded => Returned = ChunksOfFiles(Enumeration)
    /\ \A k \in 1..(Len(allChunks) - 1) :
           allChunks[k].filePath = allChunks[k + 1].filePath
               => allChunks[k].startLine <= allChunks[k + 1].startLine
    /\ \A i, j \in DOMAIN ioLog :
           (i < j /\ ioLog[i].syscall = "readFile")
               => ioLog[j].syscall = "readFile"
    /\ \A j \in DOMAIN ioLog : ioLog[j].result = "pending" => j = Len(ioLog)
    /\ (\E j \in DOMAIN ioLog : ioLog[j].syscall = "readFile")
           => arrayOfFiles = Enumeration
    /\ allChunks = ChunksOfFiles(OkReads(ioLog))

\* A call that succeeded on a root whose first entry is a directory: the
\* first chunks are from a file of the directory, the last ones from the
\* file listed after it, and one file gave two chunks.
C9_Witness ==
    /\ Succeeded
    /\ Len(Returned) >= 3
    /\ Len(fs.dirs[Root]) = 2
    /\ PathJoin(Root, fs.dirs[Root][1]) \in DOMAIN fs.dirs
    /\ Len(Returned[1].filePath) = 3
    /\ Returned[Len(Returned)].filePath = PathJoin(Root, fs.dirs[Root][2])
    /\ \E k \in 1..(Len(Returned) - 1) :
           /\ Returned[k].filePath = Returned[k + 1].filePath
           /\ Returned[k].startLine < Returned[k + 1].startLine

\* The form of the declaration a match ends with, read from the text: "=>"
\* at the end of an assignment to a const, let or var; or a name, the white
\* space before it, and before that the keyword class, function or function*.
DeclForm(content, match) ==
    LET e == match.end
        n == Min({j \in 0..e :
                     \A i \in j..(e - 1) : At(content, i) \in WordChar})
        kwEnd == BeforeSpaces(content, n)
        k == SkipExport(content, match.index)
    IN  IF StartsWithAt(content, e - 2, Str_arrow)
        THEN (IF \E kw \in {Str_const, Str_let, Str_var} :
                     StartsWithAt(content, k, kw)
              THEN "arrow_function" ELSE "none")
        ELSE IF kwEnd < n /\ StartsWithAt(content, kwEnd - 5, Str_class)
        THEN "class"
        ELSE IF /\ kwEnd < n
                /\ \/ StartsWithAt(content, kwEnd - 8, Str_function)
                   \/ StartsWithAt(content, kwEnd - 9,
                                   Str_function \o <<"*">>)
        THEN "function"
        ELSE "none"

\* C10: a JS/TS chunk has the chunkType of the form of its declaration:
\* class for the keyword class; function for function or function*, nested
\* or not; arrow_function for the assignment of an arrow function to a
\* const, let or var. No JS/TS chunk is a method or an other, and a JSDoc'd
\* function add, a const multiply = (a, b) => {...} and a class Calculator
\* with methods give exactly function, arrow_function, class.
C10_Classification ==
    Succeeded =>
        \A path \in DOMAIN fs.text :
            SUPPORTED_EXTENSIONS(extname(path)) \notin {"python", "undefined"}
            => LET content == fs.text[path]
                   matches == JSMatches(content, 0)
                   chunks == ChunksOf(path)
               IN  /\ Len(chunks) = Len(matches)
                   /\ \A k \in DOMAIN matches :
                          /\ chunks[k].chunkType
                                 = DeclForm(content, matches[k])
                          /\ chunks[k].chunkType
                                 \in {"class", "function", "arrow_function"}
                   /\ content = Js_scenarioB
                          => ChunkTypes(chunks)
                                 = <<"function", "arrow_function", "class">>

\* The file of the function add, the const multiply and the class
\* Calculator has been parsed, and gave three chunks.
C10_Witness ==
    /\ Succeeded
    /\ \E path \in DOMAIN fs.text :
           /\ fs.text[path] = Js_scenarioB
           /\ Len(ChunksOf(path)) = 3
           /\ \A k \in 1..3 : ~IsPython(ChunksOf(path)[k])

\* One character of a scan for the brace that opens a body: depth is the
\* depth of the parentheses, quote the quote of the string literal the scan
\* is in, at the index of the first { outside of both, -1 before it.
BodyStep(content, i, st) ==
    LET char == At(content, i)
    IN  IF st.at # -1 THEN st
        ELSE IF st.quote # ""
        THEN (IF st.escaped THEN [st EXCEPT !.escaped = FALSE]
              ELSE IF char = "\\" THEN [st EXCEPT !.escaped = TRUE]
              ELSE IF char = st.quote THEN [st EXCEPT !.quote = ""]
              ELSE st)
        ELSE IF char \in QuoteChars THEN [st EXCEPT !.quote = char]
        ELSE IF char = "(" THEN [st EXCEPT !.depth = st.depth + 1]
        ELSE IF char = ")" THEN [st EXCEPT !.depth = st.depth - 1]
        ELSE IF char = "{" /\ st.depth = 0 THEN [st EXCEPT !.at = i]
        ELSE st
RECURSIVE BodyRun(_, _, _, _)
BodyRun(content, lo, hi, st) ==
    IF lo >= hi THEN st
    ELSE IF hi = lo + 1 THEN BodyStep(content, lo, st)
    ELSE With(BodyRun(content, lo, (lo + hi) \div 2, st),
              LAMBDA half : BodyRun(content, (lo + hi) \div 2, hi, half))
\* The index of the { that opens the body of the declaration of a match, or
\* -1 when it has none: for an arrow function the { right after the =>,
\* white space aside; for a function or a class the first { after the name
\* that is neither in the parameter list nor in a string literal.
OwnBodyOpen(content, match) ==
    IF match.m2.isNull
    THEN (IF StartsWithAt(content, SkipSpaces(content, match.end), <<"{">>)
          THEN SkipSpaces(content, match.end) ELSE -1)
    ELSE BodyRun(content, match.end, Len(content),
                 [depth |-> 0, quote |-> "", escaped |-> FALSE,
                  at |-> -1]).at
\* The index of the } that closes the brace at open: the first one that
\* leaves as many { as } from open on, braces in string literals aside; -1
\* when there is none.
OwnBodyClose(content, open) ==
    With(WithoutStringBraces(content, open),
         LAMBDA plain :
             With({c \in open..(Len(plain) - 1) :
                      /\ At(plain, c) = "}"
                      /\ Cardinality({j \in open..c : At(plain, j) = "{"})
                             = Cardinality({j \in open..c :
                                               At(plain, j) = "}"})},
                  LAMBDA closes : IF closes = {} THEN -1 ELSE Min(closes)))
\* The endLine of the declaration of a match: the line of the } that closes
\* its own body, or the last line of the file when it has no body or the
\* body is not closed.
ExpectedJSEnd(content, match) ==
    With(OwnBodyOpen(content, match),
         LAMBDA open :
             IF open = -1 THEN NumLines(content)
             ELSE With(OwnBodyClose(content, open),
                       LAMBDA close :
                           IF close = -1 THEN NumLines(content)
                           ELSE LineNumberAt(content, close)))

\* C11: the endLine of every JS/TS chunk is the line of the } that closes
\* the body of its own declaration; when the declaration has no body in
\* braces, or the body is not closed before the end of the file, endLine is
\* the last line of the file; and a file that was read yields no error.
C11_BlockEnd ==
    /\ (pc = "done" /\ ioLog[Len(ioLog)].result = "ok") => Succeeded
    /\ Succeeded =>
        \A path \in DOMAIN fs.text :
            SUPPORTED_EXTENSIONS(extname(path)) \notin {"python", "undefined"}
            => LET content == fs.text[path]
                   matches == JSMatches(content, 0)
                   chunks == ChunksOf(path)
               IN  /\ Len(chunks) = Len(matches)
                   /\ \A k \in DOMAIN matches :
                          chunks[k].endLine
                              = ExpectedJSEnd(content, matches[k])

\* The endLine of the Python declaration at line s (1-based): the last line
\* that is not blank before the first line after s that is not blank and
\* indented no more than line s, or the last line of the file that is not
\* blank when there is no such line.
ExpectedPyEnd(lines, s) ==
    LET stops == {j \in (s + 1)..Len(lines) :
                     /\ ~IsBlank(lines[j])
                     /\ LeadingSpaces(lines[j]) <= LeadingSpaces(lines[s])}
        limit == IF stops = {} THEN Len(lines) ELSE Min(stops) - 1
    IN  Max({j \in s..limit : j = s \/ ~IsBlank(lines[j])})
\* The first line after s that is not blank, 0 when there is none.
NextNonBlank(lines, s) ==
    LET after == {j \in (s + 1)..Len(lines) : ~IsBlank(lines[j])}
    IN  IF after = {} THEN 0 ELSE Min(after)

\* C12: the endLine of every Python chunk is the last non-blank line before
\* the first following non-blank line indented no more than the declaration
\* line, or the last non-blank line of the file; code holds the blank lines
\* between startLine and endLine, and none after the last line of the body;
\* a header that no deeper line follows has endLine = startLine.
C12_PyBlockEnd ==
    Succeeded =>
        \A k \in DOMAIN Returned :
            LET chunk == Returned[k]
                lines == Split(TextOf(chunk))
                next == NextNonBlank(lines, chunk.startLine)
            IN  IsPython(chunk) =>
                    /\ chunk.endLine = ExpectedPyEnd(lines, chunk.startLine)
                    /\ chunk.code = LinesOf(TextOf(chunk), chunk.startLine,
                                            chunk.endLine)
                    /\ ~IsBlank(lines[chunk.endLine])
                    /\ (next = 0 \/ LeadingSpaces(lines[next])
                                       <= LeadingSpaces(lines[chunk.startLine]))
                           => chunk.endLine = chunk.startLine

\* A Python chunk with a blank line between its first and last line and a
\* blank line right after its last line, before the next declaration.
C12_Witness ==
    /\ Succeeded
    /\ \E k \in DOMAIN Returned :
           LET chunk == Returned[k]
               lines == Split(TextOf(chunk))
           IN  /\ IsPython(chunk)
               /\ \E j \in (chunk.startLine + 1)..(chunk.endLine - 1) :
                      IsBlank(lines[j])
               /\ chunk.endLine + 1 < Len(lines)
               /\ IsBlank(lines[chunk.endLine + 1])
               /\ \E j \in (chunk.endLine + 2)..Len(lines) :
                      ~IsBlank(lines[j])
====
